---- MODULE Spec2Model ----
(***************************************************************************)
(* Model of server.py: three FastMCP tools (verify_email, validate_phone,  *)
(* check_email_reputation) that turn a call into one GET against the       *)
(* Abstract API and hand back the decoded JSON document or an exception.   *)
(*                                                                         *)
(* Strings are sequences of tokens: a token is either a run of ordinary    *)
(* characters ("14152007986", "country") or one reserved delimiter ("?",   *)
(* "&", "=", "#").  An f-string is the concatenation of its parts, and the *)
(* query parameters of a request are what a URL parser finds in the        *)
(* concatenated text.                                                      *)
(*                                                                         *)
(* A tool call is split at requests.get, the one place where the outside   *)
(* world acts: the first step runs the handler up to the GET, the second   *)
(* takes the upstream outcome through the try/except block.                *)
(***************************************************************************)
EXTENDS Integers, Sequences, FiniteSets, TLC

VARIABLES environ, ABSTRACT_API_KEY, calls, network

vars == <<environ, ABSTRACT_API_KEY, calls, network>>

\* number of tool calls made during one process lifetime
MaxCalls == 2

Calls == 1..MaxCalls

--------------------------------------------------------------------------
\* Module constants (lines 15-19)

ABSTRACT_API_URL == <<"https://emailvalidation.abstractapi.com/v1/">>
PHONE_VALIDATION_API_URL == <<"https://phonevalidation.abstractapi.com/v1/">>
EMAIL_REPUTATION_API_URL == <<"https://emailreputation.abstractapi.com/v1/">>

\* the default handed to os.getenv on line 16
DefaultKey == <<"your_api_key_here">>

\* os.getenv(name, default): the variable's value when it is set (the empty
\* string included), the default only when it is not set
getenv(env, default) == IF env.isset THEN env.value ELSE default

\* The process environment after load_dotenv(): the variable unset, set to
\* the empty string, or set to a key.
Environments ==
    { [isset |-> FALSE, value |-> <<>>],
      [isset |-> TRUE,  value |-> <<>>],
      [isset |-> TRUE,  value |-> <<"k3y">>] }

--------------------------------------------------------------------------
\* Inputs of the tools

Emails == { <<>>, <<"x@y.com">> }

Phones == { <<"14152007986">>, <<"14152007986", "&", "country", "=">> }

\* country: str | None -- None, the empty string, or an ISO code
NoCountry == [isNone |-> TRUE, str |-> <<>>]
Countries == { NoCountry,
               [isNone |-> FALSE, str |-> <<>>],
               [isNone |-> FALSE, str |-> <<"US">>] }

\* What the provider (or the network) does with one GET.
Body1 == <<"{", "email", ":", "thanos@snap.io", ",",
                "deliverability", ":", "UNDELIVERABLE", "}">>
Body2 == <<"{", "valid", ":", "false", ",", "valid", ":", "true", "}">>
BodyHtml == <<"<html>">>

NoUpstream == [kind |-> "none", status |-> 0, reason |-> "", body |-> <<>>]

Responses ==
    { [kind |-> "response", status |-> 200, reason |-> "OK", body |-> Body1],
      [kind |-> "response", status |-> 200, reason |-> "OK", body |-> Body2],
      [kind |-> "response", status |-> 200, reason |-> "OK", body |-> BodyHtml],
      [kind |-> "response", status |-> 401, reason |-> "Unauthorized", body |-> Body1],
      [kind |-> "response", status |-> 429, reason |-> "Too Many Requests", body |-> BodyHtml],
      [kind |-> "response", status |-> 500, reason |-> "Internal Server Error", body |-> BodyHtml] }

\* exceptions requests.get itself raises: two RequestException subclasses
\* (network level) and one that is not a requests exception at all
TransportKinds == { "ConnectionError", "Timeout" }
UnexpectedKinds == { "UnicodeError" }

Failures ==
    { [kind |-> k, status |-> 0, reason |-> "", body |-> <<>>] :
        k \in TransportKinds \cup UnexpectedKinds }

Upstream == Responses \cup Failures

--------------------------------------------------------------------------
\* Text helpers

\* index of the first occurrence of token t in s, 0 when there is none
IndexOf(s, t) ==
    IF \E i \in 1..Len(s) : s[i] = t
    THEN CHOOSE i \in 1..Len(s) : s[i] = t /\ \A j \in 1..(i-1) : s[j] # t
    ELSE 0

RECURSIVE SplitOn(_, _)
SplitOn(s, sep) ==
    LET i == IndexOf(s, sep)
    IN  IF i = 0 THEN <<s>>
        ELSE <<SubSeq(s, 1, i-1)>> \o SplitOn(SubSeq(s, i+1, Len(s)), sep)

\* Python truthiness of a str: the empty string is falsy
Falsy(s) == Len(s) = 0

--------------------------------------------------------------------------
\* What the GET puts on the wire: the query string of the URL, parsed.

\* the text between the first "?" and the first "#" (the fragment is not sent)
QueryString(url) ==
    LET h == IndexOf(url, "#")
        u == IF h = 0 THEN url ELSE SubSeq(url, 1, h-1)
        q == IndexOf(u, "?")
    IN  IF q = 0 THEN <<>> ELSE SubSeq(u, q+1, Len(u))

ParsePair(piece) ==
    LET e == IndexOf(piece, "=")
    IN  IF e = 0 THEN [key |-> piece, value |-> <<>>]
        ELSE [key |-> SubSeq(piece, 1, e-1), value |-> SubSeq(piece, e+1, Len(piece))]

\* the query parameters, in order, as key/value pairs
QueryParams(url) ==
    LET pieces == SelectSeq(SplitOn(QueryString(url), "&"), LAMBDA p : p # <<>>)
    IN  [i \in 1..Len(pieces) |-> ParsePair(pieces[i])]

HasParam(url, k) ==
    \E i \in 1..Len(QueryParams(url)) : QueryParams(url)[i].key = <<k>>

ParamValues(url, k) ==
    { QueryParams(url)[i].value :
        i \in { j \in 1..Len(QueryParams(url)) : QueryParams(url)[j].key = <<k>> } }

--------------------------------------------------------------------------
\* response.json(): the body decoded as a JSON object, modelled for flat
\* objects.  A document is the set of its key/value pairs; of a repeated key
\* the last value wins.

JsonInner(b) == SubSeq(b, 2, Len(b) - 1)

JsonStructural == { "{", "}", ":", "," }

JsonDecodable(b) ==
    /\ Len(b) >= 2
    /\ b[1] = "{"
    /\ b[Len(b)] = "}"
    /\ LET in == JsonInner(b)
       IN  /\ Len(in) = 0 \/ Len(in) % 4 = 3
           /\ \A i \in 1..Len(in) :
                /\ (i % 4 = 2) => in[i] = ":"
                /\ (i % 4 = 0) => in[i] = ","
                /\ (i % 4 \in {1, 3}) => in[i] \notin JsonStructural

JsonDecode(b) ==
    LET in == JsonInner(b)
        keyAt == { i \in 1..Len(in) : i % 4 = 1 }
        last(i) == \A j \in keyAt : in[j] = in[i] => j <= i
    IN  { <<in[i], in[i+2]>> : i \in { j \in keyAt : last(j) } }

--------------------------------------------------------------------------
\* Outcome of a call: a returned document or a raised exception.

NoErr == [type |-> "none", message |-> <<>>]

Outcome(ret, d, e) == [returned |-> ret, doc |-> d, err |-> e]

\* response.raise_for_status(): the HTTPError text for a 4xx/5xx status,
\* the empty text when nothing is raised
RaiseForStatus(url, up) ==
    IF up.status >= 400 /\ up.status < 500
    THEN <<ToString(up.status), " Client Error: ", up.reason, " for url: ">> \o url
    ELSE IF up.status >= 500 /\ up.status < 600
    THEN <<ToString(up.status), " Server Error: ", up.reason, " for url: ">> \o url
    ELSE <<>>

\* the exception, if any, that the body of the try block raises
\* (requests.get, raise_for_status, response.json in that order)
TryRaises(url, up) ==
    IF up.kind # "response" THEN [type |-> up.kind, message |-> <<up.kind>>]
    ELSE IF RaiseForStatus(url, up) # <<>>
    THEN [type |-> "HTTPError", message |-> RaiseForStatus(url, up)]
    ELSE IF ~JsonDecodable(up.body)
    THEN [type |-> "JSONDecodeError", message |-> <<"Expecting value">>]
    ELSE NoErr

\* Variant: only HTTPError is caught, everything else escapes as it is.
TryBlock_OnlyHttpCaught(url, up) ==
    LET exc == TryRaises(url, up)
    IN  IF exc.type = "none" THEN Outcome(TRUE, JsonDecode(up.body), NoErr)
        ELSE IF exc.type = "HTTPError"
        THEN Outcome(FALSE, {}, [type |-> "HTTPError",
                                 message |-> <<"HTTP error occurred: ">> \o exc.message])
        ELSE Outcome(FALSE, {}, exc)

\* Variant: the except clauses in the other order, so the broad one wins.
TryBlock_BroadFirst(url, up) ==
    LET exc == TryRaises(url, up)
    IN  IF exc.type = "none" THEN Outcome(TRUE, JsonDecode(up.body), NoErr)
        ELSE Outcome(FALSE, {}, [type |-> "Exception",
                                 message |-> <<"An error occurred: ">> \o exc.message])

\* Variant: the result is reshaped, one field of the document is dropped.
TryBlock_Reshaped(url, up) ==
    LET exc == TryRaises(url, up)
    IN  IF exc.type = "none"
        THEN Outcome(TRUE, { p \in JsonDecode(up.body) : p[1] # "deliverability" }, NoErr)
        ELSE IF exc.type = "HTTPError"
        THEN Outcome(FALSE, {}, [type |-> "HTTPError",
                                 message |-> <<"HTTP error occurred: ">> \o exc.message])
        ELSE Outcome(FALSE, {}, [type |-> "Exception",
                                 message |-> <<"An error occurred: ">> \o exc.message])

\* The try/except block shared, copy for copy, by the three tools.
TryBlock(url, up) ==
    LET exc == TryRaises(url, up)
    IN  IF exc.type = "none" THEN Outcome(TRUE, JsonDecode(up.body), NoErr)
        ELSE IF exc.type = "HTTPError"
        THEN Outcome(FALSE, {}, [type |-> "HTTPError",
                                 message |-> <<"HTTP error occurred: ">> \o exc.message])
        ELSE Outcome(FALSE, {}, [type |-> "Exception",
                                 message |-> <<"An error occurred: ">> \o exc.message])

--------------------------------------------------------------------------
\* State

IdleCall ==
    [pc |-> "idle", tool |-> "none", target |-> <<>>, country |-> NoCountry,
     urlBuilt |-> FALSE, url |-> <<>>, gets |-> 0, upstream |-> NoUpstream,
     returned |-> FALSE, doc |-> {}, err |-> NoErr]

Init ==
    /\ environ \in Environments
    /\ ABSTRACT_API_KEY = getenv(environ, DefaultKey)
    /\ calls = [c \in Calls |-> IdleCall]
    /\ network = <<>>

\* call ids are handed out in order
Fresh(c) == calls[c].pc = "idle" /\ (IF c = 1 THEN TRUE ELSE calls[c-1].pc # "idle")

\* `if not ABSTRACT_API_KEY:`
CredentialAbsent_NoneOnly == FALSE
CredentialAbsent == Falsy(ABSTRACT_API_KEY)

\* raise ValueError("API key not found in environment variables.")
RaisedValueError(tool, target, country) ==
    [IdleCall EXCEPT !.pc = "done", !.tool = tool, !.target = target,
                     !.country = country,
                     !.err = [type |-> "ValueError",
                              message |-> <<"API key not found in environment variables.">>]]

\* the call is waiting in requests.get(api_url, verify=False)
InGet(tool, target, country, url) ==
    [IdleCall EXCEPT !.pc = "get", !.tool = tool, !.target = target,
                     !.country = country, !.urlBuilt = TRUE, !.url = url,
                     !.gets = 1]

EmailUrl(base, key, email) ==
    base \o <<"?", "api_key", "=">> \o key \o <<"&", "email", "=">> \o email

PhoneUrl(key, phone, country) ==
    PHONE_VALIDATION_API_URL \o <<"?", "api_key", "=">> \o key
        \o <<"&", "phone", "=">> \o phone
        \o (IF ~country.isNone /\ ~Falsy(country.str)
            THEN <<"&", "country", "=">> \o country.str ELSE <<>>)

\* Start(c, tool, target, country, url): the handler up to requests.get
Start(c, tool, target, country, url) ==
    /\ Fresh(c)
    /\ IF CredentialAbsent
       THEN /\ calls' = [calls EXCEPT ![c] = RaisedValueError(tool, target, country)]
            /\ UNCHANGED network
       ELSE /\ calls' = [calls EXCEPT ![c] = InGet(tool, target, country, url)]
            /\ network' = Append(network, url)
    /\ UNCHANGED <<environ, ABSTRACT_API_KEY>>

\* Finish(c, tool, up): requests.get comes back with `up`; the rest of the
\* try block and the except clauses
Finish(c, tool, up) ==
    /\ calls[c].pc = "get"
    /\ calls[c].tool = tool
    /\ LET out == TryBlock(calls[c].url, up)
       IN  calls' = [calls EXCEPT ![c].pc = "done", ![c].upstream = up,
                                  ![c].returned = out.returned,
                                  ![c].doc = out.doc, ![c].err = out.err]
    /\ UNCHANGED <<environ, ABSTRACT_API_KEY, network>>

\* Variant: a finished call with the same email answers the new one.
verify_email_cached(c, email) ==
    IF \E d \in Calls : /\ calls[d].pc = "done" /\ calls[d].tool = "verify_email"
                        /\ calls[d].target = email /\ calls[d].returned
    THEN /\ Fresh(c)
         /\ \E d \in Calls :
              /\ calls[d].pc = "done" /\ calls[d].tool = "verify_email"
              /\ calls[d].target = email /\ calls[d].returned
              /\ calls' = [calls EXCEPT ![c] = [calls[d] EXCEPT !.gets = 0]]
         /\ UNCHANGED <<environ, ABSTRACT_API_KEY, network>>
    ELSE Start(c, "verify_email", email, NoCountry,
               EmailUrl(ABSTRACT_API_URL, ABSTRACT_API_KEY, email))

verify_email(c, email) ==
    Start(c, "verify_email", email, NoCountry,
          EmailUrl(ABSTRACT_API_URL, ABSTRACT_API_KEY, email))

validate_phone(c, phone, country) ==
    Start(c, "validate_phone", phone, country,
          PhoneUrl(ABSTRACT_API_KEY, phone, country))

check_email_reputation(c, email) ==
    Start(c, "check_email_reputation", email, NoCountry,
          EmailUrl(EMAIL_REPUTATION_API_URL, ABSTRACT_API_KEY, email))

\* Variant: a failed GET is tried once more.
verify_email_return_retry(c, up) ==
    IF calls[c].pc = "get" /\ calls[c].tool = "verify_email"
       /\ ~TryBlock(calls[c].url, up).returned /\ calls[c].gets < 2
    THEN /\ calls' = [calls EXCEPT ![c].gets = @ + 1]
         /\ network' = Append(network, calls[c].url)
         /\ UNCHANGED <<environ, ABSTRACT_API_KEY>>
    ELSE Finish(c, "verify_email", up)

verify_email_return(c, up) == Finish(c, "verify_email", up)

\* Variant: the decoded result sits in one place shared by the calls in flight.
validate_phone_return_shared(c, up) ==
    /\ calls[c].pc = "get"
    /\ calls[c].tool = "validate_phone"
    /\ LET out == TryBlock(calls[c].url, up)
       IN  calls' = [d \in Calls |->
                      IF d = c \/ (calls[d].pc = "get" /\ calls[d].tool = "validate_phone")
                      THEN [calls[d] EXCEPT !.pc = "done", !.upstream = up,
                                            !.returned = out.returned,
                                            !.doc = out.doc, !.err = out.err]
                      ELSE calls[d]]
    /\ UNCHANGED <<environ, ABSTRACT_API_KEY, network>>

validate_phone_return(c, up) == Finish(c, "validate_phone", up)

check_email_reputation_return(c, up) == Finish(c, "check_email_reputation", up)

Next ==
    \/ \E c \in Calls, email \in Emails : verify_email(c, email)
    \/ \E c \in Calls, phone \in Phones, country \in Countries :
          validate_phone(c, phone, country)
    \/ \E c \in Calls, email \in Emails : check_email_reputation(c, email)
    \/ \E c \in Calls, up \in Upstream : verify_email_return(c, up)
    \/ \E c \in Calls, up \in Upstream : validate_phone_return(c, up)
    \/ \E c \in Calls, up \in Upstream : check_email_reputation_return(c, up)

Spec == Init /\ [][Next]_vars

--------------------------------------------------------------------------
\* Vocabulary of the properties

Started(c) == calls[c].pc # "idle"
Done(c) == calls[c].pc = "done"
Sent(c) == calls[c].gets > 0

IsResponse(c) == calls[c].upstream.kind = "response"
HttpFailure(c) ==
    Done(c) /\ IsResponse(c)
            /\ calls[c].upstream.status >= 400 /\ calls[c].upstream.status < 600
Success2xx(c) ==
    Done(c) /\ IsResponse(c)
            /\ calls[c].upstream.status >= 200 /\ calls[c].upstream.status < 300
\* DNS failure, reset, timeout, or a 2xx body that is not JSON
TransportFailure(c) ==
    Done(c) /\ (\/ calls[c].upstream.kind \in TransportKinds
                \/ Success2xx(c) /\ ~JsonDecodable(calls[c].upstream.body))
UnexpectedFailure(c) == Done(c) /\ calls[c].upstream.kind \in UnexpectedKinds

TargetParam(c) == IF calls[c].tool = "validate_phone" THEN "phone" ELSE "email"

--------------------------------------------------------------------------
\* C1: with a falsy credential every call of every tool ends in ValueError
\* (the configuration error), before a URL is built and with no GET issued.
C1_AbsentCredentialFailsBeforeNetwork ==
    Len(ABSTRACT_API_KEY) = 0 =>
        /\ network = <<>>
        /\ \A c \in Calls : Started(c) =>
              /\ Done(c)
              /\ calls[c].err.type = "ValueError"
              /\ ~calls[c].urlBuilt
              /\ calls[c].gets = 0
              /\ ~calls[c].returned

C1_Witness ==
    /\ Len(ABSTRACT_API_KEY) = 0
    /\ Done(1) /\ Done(2)
    /\ calls[1].tool # calls[2].tool
    /\ calls[1].err.type = "ValueError" /\ calls[2].err.type = "ValueError"
    /\ network = <<>>

\* C2: when the API key is absent from the environment at start, the
\* credential is absent (falsy) in every state, no call builds an
\* authenticated URL and no request is issued.
C2_UnsetKeyMeansAbsent ==
    ~environ.isset =>
        /\ Len(ABSTRACT_API_KEY) = 0
        /\ network = <<>>
        /\ \A c \in Calls : ~calls[c].urlBuilt

C4_SuccessPassesDocumentThrough ==
    \A c \in Calls :
        (Success2xx(c) /\ JsonDecodable(calls[c].upstream.body)) =>
            /\ calls[c].returned
            /\ calls[c].doc = JsonDecode(calls[c].upstream.body)
            /\ calls[c].err = NoErr

C4_Witness ==
    \E c \in Calls :
        /\ Success2xx(c) /\ calls[c].upstream.body = Body1
        /\ calls[c].tool = "verify_email"
        /\ calls[c].returned
        /\ <<"deliverability", "UNDELIVERABLE">> \in calls[c].doc

\* C5: a validate_phone request carries a country parameter exactly when the
\* caller gave a (non-empty) country, with that value; never a country key
\* with an empty value; api_key and phone are always there.
C5_CountryOnlyWhenSupplied ==
    \A c \in Calls : (Sent(c) /\ calls[c].tool = "validate_phone") =>
        LET supplied == ~calls[c].country.isNone /\ calls[c].country.str # <<>>
        IN  /\ HasParam(calls[c].url, "country") <=> supplied
            /\ supplied => ParamValues(calls[c].url, "country") = {calls[c].country.str}
            /\ <<>> \notin ParamValues(calls[c].url, "country")
            /\ HasParam(calls[c].url, "api_key")
            /\ HasParam(calls[c].url, "phone")

\* C6 as stated: a transport-level failure ends in an error kind that differs
\* from the kind of an HTTP failure and from the kind of an unexpected error.
C6_TransportKindIsDistinct ==
    \A c, d \in Calls :
        (TransportFailure(c) /\ (HttpFailure(d) \/ UnexpectedFailure(d))) =>
            calls[c].err.type # calls[d].err.type

\* C6 amended: a transport-level failure ends in the generic Exception
\* ("An error occurred: ..."), with no result; that kind differs from the
\* HTTPError of an HTTP failure and from ValueError, and it is the kind an
\* unexpected error gets too.
C6_TransportFailureIsGenericException ==
    \A c \in Calls : TransportFailure(c) =>
        /\ calls[c].err.type = "Exception"
        /\ calls[c].err.message[1] = "An error occurred: "
        /\ ~calls[c].returned
        /\ \A d \in Calls :
              /\ HttpFailure(d) => calls[d].err.type # calls[c].err.type
              /\ UnexpectedFailure(d) => calls[d].err.type = calls[c].err.type

C6_Witness ==
    \E c, d \in Calls :
        /\ TransportFailure(c) /\ calls[c].upstream.kind = "ConnectionError"
        /\ TransportFailure(d) /\ calls[d].upstream.body = BodyHtml
        /\ calls[c].err.type = "Exception" /\ calls[d].err.type = "Exception"

\* C7: with a credential present every call issues its own GET: N calls,
\* N requests, the c-th of them for the c-th call, whatever earlier calls
\* with the same arguments did.
C7_OneRequestPerCall ==
    Len(ABSTRACT_API_KEY) > 0 =>
        /\ Len(network) = Cardinality({ c \in Calls : Started(c) })
        /\ \A c \in Calls : Started(c) =>
              /\ calls[c].gets = 1
              /\ network[c] = calls[c].url

C7_Witness ==
    /\ Len(ABSTRACT_API_KEY) > 0
    /\ Done(1) /\ calls[1].returned
    /\ Started(2)
    /\ calls[1].tool = calls[2].tool
    /\ calls[1].target = calls[2].target
    /\ calls[1].country = calls[2].country
    /\ Len(network) = 2

\* C8: no request goes out whose target parameter (email or phone) is empty.
C8_TargetNeverEmpty ==
    \A c \in Calls : Sent(c) =>
        /\ calls[c].target # <<>>
        /\ <<>> \notin ParamValues(calls[c].url, TargetParam(c))

\* C9: a call issues at most one GET, shows no outcome before it is done,
\* and once done has exactly one of a result document and an error.
C9_SingleAttemptSingleOutcome ==
    \A c \in Calls :
        /\ calls[c].gets <= 1
        /\ Len(network) <= Cardinality({ d \in Calls : Started(d) })
        /\ ~Done(c) => (~calls[c].returned /\ calls[c].err = NoErr /\ calls[c].doc = {})
        /\ Done(c) => (calls[c].returned <=> calls[c].err.type = "none")
        /\ (Done(c) /\ ~calls[c].returned) => calls[c].doc = {}

C9_Witness ==
    \E c, d \in Calls :
        /\ Done(c) /\ calls[c].returned /\ calls[c].gets = 1
        /\ Done(d) /\ ~calls[d].returned /\ calls[d].gets = 1
        /\ calls[d].tool = "verify_email"

\* C10: a step of one call leaves every other call's record, the
\* credential and the environment as they were, and a call's outcome is the
\* one that its own request and its own upstream response give.
C10_StepTouchesOneCall ==
    /\ \A c, d \in Calls :
          (c # d /\ calls'[c] # calls[c]) => calls'[d] = calls[d]
    /\ ABSTRACT_API_KEY' = ABSTRACT_API_KEY
    /\ environ' = environ
    /\ \A c \in Calls :
          (calls[c].pc = "get" /\ calls'[c].pc = "done") =>
              /\ calls'[c].url = calls[c].url
              /\ calls'[c].target = calls[c].target
              /\ calls'[c].country = calls[c].country
              /\ calls'[c].err.type = "HTTPError" =>
                    SubSeq(calls'[c].err.message, 6, Len(calls'[c].err.message))
                        = calls[c].url

C10_NoInterference == [][C10_StepTouchesOneCall]_vars

C10_Witness ==
    /\ calls[1].pc = "get" /\ calls[1].tool = "validate_phone"
    /\ Done(2) /\ calls[2].tool = "validate_phone"
    /\ calls[2].returned

====
